---- MODULE Spec2Model ----
(***************************************************************************)
(* senza/manaus/iam.py: IAMServerCertificate (a server certificate stored  *)
(* in IAM) and IAM.get_certificates (the lazily filtered listing).         *)
(*                                                                         *)
(* Timestamps are integer ticks.  An Optional[T] value is a set with at    *)
(* most one element: {} is None, {x} is the value x.  A string that the    *)
(* code scans (an ARN) is a sequence of one-character strings.             *)
(***************************************************************************)
EXTENDS Integers, Sequences, FiniteSets, TLC

VARIABLES
    store,       \* the remote IAM store: the entries, in the order the service lists them
    nextId,      \* the number of certificates uploaded so far (the service assigns ARNs)
    now,         \* the clock, datetime.now(timezone.utc)
    gen,         \* the generator object of one IAM.get_certificates call
    byName,      \* one IAMServerCertificate.get_by_name call and its outcome
    lastResult,  \* the ARNs the caller got from its previous fully consumed listing
    recs,        \* records a caller has constructed and holds
    out,         \* the last operation applied to held records or to an ARN, and its result
    arn          \* the argument being built for arn_is_server_certificate

vars == <<store, nextId, now, gen, byName, lastResult, recs, out, arn>>

---------------------------------------------------------------------------
(* Bounds of the model *)

MaxTime == 1      \* the clock runs over 0..MaxTime
MaxWhen == 2      \* is_valid is asked about the instants 0..MaxWhen
MaxStore == 2     \* at most this many certificates in the store at once
MaxUploads == 2   \* at most this many uploads in one behaviour
MaxRecs == 3      \* at most this many records held by the caller
MaxFrags == 3     \* an ARN argument is built from at most this many fragments

Times == 0..MaxTime

Whens == 0..MaxWhen

None == {}
Some(x) == {x}
Unwrap(o) == CHOOSE x \in o : TRUE

---------------------------------------------------------------------------
(* Raw entries: what the service returns for one certificate.  vals holds  *)
(* the service's values, missing the keys the response leaves out.         *)

MetaOrder == <<"ServerCertificateName", "Arn", "Expiration", "Path",
               "ServerCertificateId", "UploadDate">>

MetaFields == {MetaOrder[i] : i \in 1..Len(MetaOrder)}

BodyFields == {"CertificateBody", "CertificateChain"}

RequiredFields == MetaFields \cup BodyFields

Container == "ServerCertificateMetadata"

\* Field f of raw entry e is absent: its key is left out, or (for a metadata
\* field) the metadata container that would hold it is left out.
Absent(e, f) ==
    \/ f \in e.missing
    \/ f \in MetaFields /\ Container \in e.missing

WellFormed(e) == \A f \in RequiredFields : ~Absent(e, f)

Raise(kind) == [ok |-> FALSE, error |-> kind]

\* The first metadata key, in the order __init__ reads them, that metadata lacks.
FirstMissing(missing) ==
    LET idx == {i \in 1..Len(MetaOrder) : MetaOrder[i] \in missing}
    IN  MetaOrder[CHOOSE i \in idx : \A j \in idx : i <= j]

\* IAMServerCertificate.__init__(metadata, certificate_body, certificate_chain):
\* metadata is a dict (its values and the keys it lacks); every metadata['...']
\* read of a key it lacks raises KeyError.
IAMServerCertificate(metadata, certificate_body, certificate_chain) ==
    IF metadata.missing \cap MetaFields # {}
    THEN [ok |-> FALSE, error |-> "KeyError",
          key |-> FirstMissing(metadata.missing)]
    ELSE [ok |-> TRUE,
          rec |-> [metadata          |-> metadata.vals,
                   certificate_body  |-> certificate_body,
                   certificate_chain |-> certificate_chain,
                   name           |-> metadata.vals.ServerCertificateName,
                   arn            |-> metadata.vals.Arn,
                   expiration     |-> metadata.vals.Expiration,
                   path           |-> metadata.vals.Path,
                   certificate_id |-> metadata.vals.ServerCertificateId,
                   upload_date    |-> metadata.vals.UploadDate]]

\* The metadata dict of raw entry e.
MetadataOf(e) ==
    [vals |-> [f \in MetaFields |-> e.vals[f]],
     missing |-> e.missing \cap MetaFields]

\* A direct call IAMServerCertificate(metadata, body, chain) with the arguments
\* taken from e: an argument left out is a TypeError of the call itself.
construct(e) ==
    IF \E f \in BodyFields \cup {Container} : f \in e.missing
    THEN Raise("TypeError")
    ELSE IAMServerCertificate(MetadataOf(e), e.vals.CertificateBody,
                              e.vals.CertificateChain)

\* IAMServerCertificate.from_boto_dict(server_certificate): three dict reads,
\* each a KeyError when the key is left out, then the constructor.
from_boto_dict_ChainOptional(server_certificate) ==
    IF Container \in server_certificate.missing
    THEN [ok |-> FALSE, error |-> "KeyError", key |-> Container]
    ELSE IF "CertificateBody" \in server_certificate.missing
    THEN [ok |-> FALSE, error |-> "KeyError", key |-> "CertificateBody"]
    ELSE IAMServerCertificate(MetadataOf(server_certificate),
                              server_certificate.vals.CertificateBody,
                              IF "CertificateChain" \in server_certificate.missing
                              THEN ""
                              ELSE server_certificate.vals.CertificateChain)

from_boto_dict(server_certificate) ==
    IF Container \in server_certificate.missing
    THEN [ok |-> FALSE, error |-> "KeyError", key |-> Container]
    ELSE IF "CertificateBody" \in server_certificate.missing
    THEN [ok |-> FALSE, error |-> "KeyError", key |-> "CertificateBody"]
    ELSE IF "CertificateChain" \in server_certificate.missing
    THEN [ok |-> FALSE, error |-> "KeyError", key |-> "CertificateChain"]
    ELSE IAMServerCertificate(MetadataOf(server_certificate),
                              server_certificate.vals.CertificateBody,
                              server_certificate.vals.CertificateChain)

\* IAMServerCertificate.from_boto_server_certificate(server_certificate): three
\* attribute reads, each an AttributeError when the object lacks the attribute.
from_boto_server_certificate(server_certificate) ==
    IF Container \in server_certificate.missing
    THEN [ok |-> FALSE, error |-> "AttributeError",
          key |-> "server_certificate_metadata"]
    ELSE IF "CertificateBody" \in server_certificate.missing
    THEN [ok |-> FALSE, error |-> "AttributeError", key |-> "certificate_body"]
    ELSE IF "CertificateChain" \in server_certificate.missing
    THEN [ok |-> FALSE, error |-> "AttributeError", key |-> "certificate_chain"]
    ELSE IAMServerCertificate(MetadataOf(server_certificate),
                              server_certificate.vals.CertificateBody,
                              server_certificate.vals.CertificateChain)

\* IAMServerCertificate.__lt__
lt_ByExpiration(self, other) == self.expiration < other.expiration

lt(self, other) == self.upload_date < other.upload_date

\* IAMServerCertificate.__eq__
eq_ByName(self, other) == self.name = other.name

eq(self, other) == self.arn = other.arn

\* IAMServerCertificate.__repr__
repr(self) == <<"<IAMServerCertificate: ", self.name, ">">>

\* IAMServerCertificate.is_valid(when): clock is what datetime.now(timezone.utc)
\* returns when `when` is None.
is_valid_Inclusive(self, when, clock) ==
    LET w == IF when # None THEN Unwrap(when) ELSE clock
    IN  w <= self.expiration

is_valid(self, when, clock) ==
    LET w == IF when # None THEN Unwrap(when) ELSE clock
    IN  w < self.expiration

\* sorted(certificates): Python's stable sort, which compares with __lt__ only.
\* Insert x behind every element it is not less than.
RECURSIVE insert(_, _)
insert(x, s) ==
    IF s = <<>> THEN <<x>>
    ELSE IF lt(x, Head(s)) THEN <<x>> \o s
    ELSE <<Head(s)>> \o insert(x, Tail(s))

RECURSIVE sorted(_)
sorted(s) ==
    IF s = <<>> THEN <<>>
    ELSE insert(s[Len(s)], sorted(SubSeq(s, 1, Len(s) - 1)))

---------------------------------------------------------------------------
(* IAMServerCertificate.arn_is_server_certificate *)

IamPrefix == <<"a", "r", "n", ":", "a", "w", "s", ":", "i", "a", "m", ":">>

ServerCertificateMark == <<"s", "e", "r", "v", "e", "r", "-", "c", "e", "r", "t", "i", "f", "i", "c", "a", "t", "e">>

\* str.startswith(prefix)
startswith(s, prefix) ==
    /\ Len(s) >= Len(prefix)
    /\ SubSeq(s, 1, Len(prefix)) = prefix

\* `sub in s` for strings
contains(s, sub) ==
    \E i \in 1..(Len(s) - Len(sub) + 1) : SubSeq(s, i, i + Len(sub) - 1) = sub

arn_is_server_certificate_Either(a) ==
    IF a = None
    THEN FALSE
    ELSE startswith(Unwrap(a), IamPrefix)
             \/ contains(Unwrap(a), ServerCertificateMark)

arn_is_server_certificate(a) ==
    IF a = None
    THEN FALSE
    ELSE startswith(Unwrap(a), IamPrefix)
             /\ contains(Unwrap(a), ServerCertificateMark)

\* The pieces the ARN arguments are put together from.
Fragments ==
    { IamPrefix,
      <<"a", "r", "n", ":", "a", "w", "s", ":", "i", "a", "m">>,
      <<"a", "r", "n", ":", "a", "w", "s", ":", "s", "3", ":">>,
      <<":", "1", "2", "3", ":">>,
      <<"u", "s", "e", "r", "/", "f", "o", "o">>,
      <<"s", "e", "r", "v", "e", "r", "-", "c", "e", "r", "t", "i", "f", "i", "c", "a", "t", "e", "/", "f", "o", "o">>,
      <<"s", "e", "r", "v", "e", "r", "-", "c", "e", "r", "t", "i", "f", "i", "c", "a", "t">>,
      <<"e">> }

---------------------------------------------------------------------------
(* The external service and the clock *)

Names == {"cert-a", "cert-b"}

\* The name a listing is filtered by, when it is: the names are alike, so one
\* of them stands for either.
FilterNames == {"cert-a"}

\* The shapes of the entries the service returns: complete, or without the
\* certificate chain.
StoreShapes == {{}, {"CertificateChain"}}

ArnOf(id) == "arn:aws:iam::123:server-certificate/" \o ToString(id)

\* The expirations of the certificates uploaded: within the clock's range
\* (such a certificate expires as time passes) and beyond it.
Expirations == {1, 2}

\* The entry the service stores for the id-th upload.
Entry(id, n, exp, shape) ==
    [vals |-> [ServerCertificateName |-> n,
               Arn                   |-> ArnOf(id),
               Expiration            |-> exp,
               Path                  |-> "/",
               ServerCertificateId   |-> ToString(id),
               UploadDate            |-> id,
               CertificateBody       |-> "pem",
               CertificateChain      |-> ""],
     missing |-> shape]

\* resource.server_certificates.all(): every entry of the store, in its order.
all(st) == st

\* client.get_server_certificate(ServerCertificateName=name): the outcomes the
\* client call can have on store st; fault is a remote failure other than
\* not-found (network, authorization, throttling).
get_server_certificate(st, name, fault) ==
    LET matches == {i \in 1..Len(st) : st[i].vals.ServerCertificateName = name}
    IN  IF fault THEN {Raise("ServiceError")}
        ELSE IF matches = {} THEN {Raise("NoSuchEntity")}
        ELSE {[ok |-> TRUE, response |-> [ServerCertificate |-> st[i]]] :
                  i \in matches}

\* IAMServerCertificate.get_by_name, given the outcome of its one client call:
\* an exception of the call propagates, a response is normalized.
get_by_name_Wrap(called) ==
    IF ~called.ok
    THEN Raise("ServiceError")
    ELSE from_boto_dict(called.response.ServerCertificate)

get_by_name(called) ==
    IF ~called.ok
    THEN called
    ELSE from_boto_dict(called.response.ServerCertificate)

---------------------------------------------------------------------------
(* IAM.get_certificates: a generator *)

GenIdle ==
    [pc |-> "idle", valid_only |-> TRUE, name |-> None, snapshot |-> <<>>,
     idx |-> 0, yielded |-> <<>>, evalAt |-> <<>>, t0 |-> 0, requests |-> 0,
     error |-> ""]

\* The two `continue` tests of the loop body: whether certificate is yielded.
Keep_NameOrValid(certificate, valid_only, name, clock) ==
    IF name # None /\ certificate.name # Unwrap(name)
    THEN valid_only /\ is_valid(certificate, None, clock)
    ELSE IF valid_only /\ ~is_valid(certificate, None, clock)
    THEN FALSE
    ELSE TRUE

Keep(certificate, valid_only, name, clock) ==
    IF name # None /\ certificate.name # Unwrap(name)
    THEN FALSE
    ELSE IF valid_only /\ ~is_valid(certificate, None, clock)
    THEN FALSE
    ELSE TRUE

\* One pass of the for loop of generator g with the clock at `clock`: the
\* iterator is exhausted (the generator returns), or the next entry is
\* normalized (an exception leaves the generator) and filtered.
Evaluate_SkipMalformed(g, clock) ==
    IF g.idx = Len(g.snapshot)
    THEN [g EXCEPT !.pc = "done"]
    ELSE LET made == from_boto_server_certificate(g.snapshot[g.idx + 1])
             seen == [g EXCEPT !.idx = g.idx + 1,
                               !.evalAt = Append(g.evalAt, clock)]
         IN  IF ~made.ok
             THEN seen
             ELSE IF Keep(made.rec, g.valid_only, g.name, clock)
             THEN [seen EXCEPT !.yielded = Append(g.yielded, made.rec)]
             ELSE seen

Evaluate_RequestTime(g, clock) ==
    IF g.idx = Len(g.snapshot)
    THEN [g EXCEPT !.pc = "done"]
    ELSE LET made == from_boto_server_certificate(g.snapshot[g.idx + 1])
             seen == [g EXCEPT !.idx = g.idx + 1,
                               !.evalAt = Append(g.evalAt, clock)]
         IN  IF ~made.ok
             THEN [seen EXCEPT !.pc = "raised", !.error = made.error]
             ELSE IF Keep(made.rec, g.valid_only, g.name, g.t0)
             THEN [seen EXCEPT !.yielded = Append(g.yielded, made.rec)]
             ELSE seen

Evaluate(g, clock) ==
    IF g.idx = Len(g.snapshot)
    THEN [g EXCEPT !.pc = "done"]
    ELSE LET made == from_boto_server_certificate(g.snapshot[g.idx + 1])
             seen == [g EXCEPT !.idx = g.idx + 1,
                               !.evalAt = Append(g.evalAt, clock)]
         IN  IF ~made.ok
             THEN [seen EXCEPT !.pc = "raised", !.error = made.error]
             ELSE IF Keep(made.rec, g.valid_only, g.name, clock)
             THEN [seen EXCEPT !.yielded = Append(g.yielded, made.rec)]
             ELSE seen

ByNameIdle == [pc |-> "idle"]

OutIdle == [op |-> "none"]

ArnIdle == [frags |-> 0, value |-> None]

Init ==
    /\ store = <<>>
    /\ nextId = 0
    /\ now = 0
    /\ gen = GenIdle
    /\ byName = ByNameIdle
    /\ lastResult = {}
    /\ recs = <<>>
    /\ out = OutIdle
    /\ arn = ArnIdle

---------------------------------------------------------------------------
(* The environment: the store changes and time passes *)

Upload ==
    /\ Len(store) < MaxStore
    /\ nextId < MaxUploads
    /\ \E n \in Names, exp \in Expirations, shape \in StoreShapes :
           store' = Append(store, Entry(nextId + 1, n, exp, shape))
    /\ nextId' = nextId + 1
    /\ UNCHANGED <<now, gen, byName, lastResult, recs, out, arn>>

Delete ==
    /\ \E i \in 1..Len(store) :
           store' = SubSeq(store, 1, i - 1) \o SubSeq(store, i + 1, Len(store))
    /\ UNCHANGED <<nextId, now, gen, byName, lastResult, recs, out, arn>>

Tick ==
    /\ now < MaxTime
    /\ now' = now + 1
    /\ UNCHANGED <<store, nextId, gen, byName, lastResult, recs, out, arn>>

---------------------------------------------------------------------------
(* The calls *)

\* IAM.get_certificates(valid_only, name): calling a generator function binds
\* the arguments and runs none of its body.  The caller is single-threaded and
\* makes its calls one after the other.
GetCertificates ==
    /\ gen.pc = "idle"
    /\ byName.pc = "idle"
    /\ \E v \in BOOLEAN, n \in {None} \cup {Some(x) : x \in FilterNames} :
           gen' = [GenIdle EXCEPT !.pc = "created", !.valid_only = v, !.name = n]
    /\ UNCHANGED <<store, nextId, now, byName, lastResult, recs, out, arn>>

\* The first next(): the resource is made and the listing requested.  The
\* request fails, or returns what the store holds then.
GenRequest_Memo ==
    /\ gen.pc = "created"
    /\ \E fault \in BOOLEAN :
           gen' = IF fault
                  THEN [gen EXCEPT !.pc = "raised", !.error = "ServiceError",
                                   !.requests = gen.requests + 1, !.t0 = now]
                  ELSE IF lastResult = {}
                  THEN [gen EXCEPT !.pc = "running", !.snapshot = all(store),
                                   !.requests = gen.requests + 1, !.t0 = now]
                  ELSE [gen EXCEPT !.pc = "running",
                                   !.snapshot = SelectSeq(all(store),
                                       LAMBDA e : e.vals.Arn \in lastResult),
                                   !.t0 = now]
    /\ UNCHANGED <<store, nextId, now, byName, lastResult, recs, out, arn>>

GenRequest ==
    /\ gen.pc = "created"
    /\ \E fault \in BOOLEAN :
           gen' = IF fault
                  THEN [gen EXCEPT !.pc = "raised", !.error = "ServiceError",
                                   !.requests = gen.requests + 1, !.t0 = now]
                  ELSE [gen EXCEPT !.pc = "running", !.snapshot = all(store),
                                   !.requests = gen.requests + 1, !.t0 = now]
    /\ UNCHANGED <<store, nextId, now, byName, lastResult, recs, out, arn>>

\* One pass of the loop, at the clock's present value.
GenStep ==
    /\ gen.pc = "running"
    /\ gen' = Evaluate(gen, now)
    /\ UNCHANGED <<store, nextId, now, byName, lastResult, recs, out, arn>>

\* The caller drops the generator: exhausted, failed, or abandoned half way.
\* What a fully consumed call produced is what the caller keeps.
GenClose ==
    /\ gen.pc # "idle"
    /\ gen' = GenIdle
    /\ lastResult' = IF gen.pc = "done"
                     THEN {gen.yielded[i].arn : i \in 1..Len(gen.yielded)}
                     ELSE lastResult
    /\ UNCHANGED <<store, nextId, now, byName, recs, out, arn>>

\* IAMServerCertificate.get_by_name(name): one client call, then from_boto_dict.
GetByName ==
    /\ byName.pc = "idle"
    /\ gen.pc = "idle"
    /\ \E n \in Names, fault \in BOOLEAN :
         \E called \in get_server_certificate(store, n, fault) :
           byName' = [pc |-> "returned", name |-> n, fault |-> fault,
                      requests |-> <<"GetServerCertificate">>,
                      result |-> get_by_name(called)]
    /\ UNCHANGED <<store, nextId, now, gen, lastResult, recs, out, arn>>

\* The caller is done with the outcome of get_by_name.
ByNameReturn ==
    /\ byName.pc = "returned"
    /\ byName' = ByNameIdle
    /\ UNCHANGED <<store, nextId, now, gen, lastResult, recs, out, arn>>

Next ==
    \/ Upload
    \/ Delete
    \/ Tick
    \/ GetCertificates
    \/ GenRequest
    \/ GenStep
    \/ GenClose
    \/ GetByName
    \/ ByNameReturn

Spec == Init /\ [][Next]_vars

---------------------------------------------------------------------------
(* Properties of the listing and of get_by_name *)

NameOk(e, n) == n = None \/ e.vals.ServerCertificateName = Unwrap(n)

\* Record r carries the eight fields of entry e unchanged.
Describes(r, e) ==
    /\ r.name = e.vals.ServerCertificateName
    /\ r.arn = e.vals.Arn
    /\ r.expiration = e.vals.Expiration
    /\ r.path = e.vals.Path
    /\ r.certificate_id = e.vals.ServerCertificateId
    /\ r.upload_date = e.vals.UploadDate
    /\ r.certificate_body = e.vals.CertificateBody
    /\ r.certificate_chain = e.vals.CertificateChain

\* The j-th smallest index of K.
Nth(K, j) == CHOOSE k \in K : Cardinality({i \in K : i < k}) = j - 1

\* ys is the subsequence of snap at the indices K, in snap's order.
IsSubsequence(ys, snap, K) ==
    /\ Len(ys) = Cardinality(K)
    /\ \A j \in 1..Len(ys) : Describes(ys[j], snap[Nth(K, j)])

Malformed(g) == {k \in 1..Len(g.snapshot) : ~WellFormed(g.snapshot[k])}

YieldedArns(g) == {g.yielded[j].arn : j \in 1..Len(g.yielded)}

\* C1: with the clock held at t from the request to the end of a fully consumed
\* get_certificates(valid_only, n), the records yielded are exactly the entries
\* of the snapshot with (n is None or name = n) and (not valid_only or
\* t < expiration), in the snapshot's order, each once; with both filters set
\* that is the intersection of the two single-filter selections.
C1_FilteredSubsequence ==
    (gen.pc = "done" /\ now = gen.t0) =>
        LET snap == gen.snapshot
            byNameOnly == {k \in 1..Len(snap) : NameOk(snap[k], gen.name)}
            byValidOnly == {k \in 1..Len(snap) : now < snap[k].vals.Expiration}
            K == {k \in 1..Len(snap) :
                     /\ gen.name = None
                            \/ snap[k].vals.ServerCertificateName = Unwrap(gen.name)
                     /\ ~gen.valid_only \/ now < snap[k].vals.Expiration}
        IN  /\ IsSubsequence(gen.yielded, snap, K)
            /\ (gen.valid_only /\ gen.name # None) =>
                   YieldedArns(gen) =
                       {snap[k].vals.Arn : k \in byNameOnly \cap byValidOnly}

\* Both filters set, two entries listed, exactly one of them yielded.
C1_Witness ==
    /\ gen.pc = "done"
    /\ now = gen.t0
    /\ gen.valid_only
    /\ gen.name # None
    /\ Len(gen.snapshot) = 2
    /\ Len(gen.yielded) = 1
    /\ \E k \in 1..2 : /\ NameOk(gen.snapshot[k], gen.name)
                       /\ ~(now < gen.snapshot[k].vals.Expiration)

\* C3: a malformed entry makes get_certificates raise when it is reached:
\* the generator never goes past the first malformed entry of the snapshot,
\* has raised once it has reached it, has yielded records of earlier entries
\* only, and ends normally only if no entry of the snapshot is malformed.
C3_FailFast ==
    gen.pc \in {"running", "done", "raised"} =>
        /\ gen.pc = "done" => Malformed(gen) = {}
        /\ \A m \in Malformed(gen) :
               /\ gen.idx <= m
               /\ gen.idx = m => gen.pc = "raised"
               /\ \A j \in 1..Len(gen.yielded) :
                      \E k \in 1..(m - 1) :
                          gen.yielded[j].arn = gen.snapshot[k].vals.Arn
        /\ (gen.pc = "raised" /\ gen.error # "ServiceError") =>
               gen.idx \in Malformed(gen)

\* The call raised at the second entry, which its name filter would have
\* dropped, after yielding the first.
C3_Witness ==
    /\ gen.pc = "raised"
    /\ gen.idx = 2
    /\ Len(gen.yielded) = 1
    /\ ~NameOk(gen.snapshot[2], gen.name)

\* C9: in get_certificates(valid_only=True) the entries are those of the one
\* request and each is tested against the clock as it stood when that entry
\* was evaluated: the clock readings do not decrease, and the records yielded
\* are exactly the entries, in order, whose own reading was before their
\* expiration.
C9_PerEntryClock ==
    (gen.valid_only /\ gen.pc \in {"running", "done", "raised"}
         /\ gen.error # "ServiceError") =>
        LET snap == gen.snapshot
            K == {k \in 1..gen.idx :
                     /\ WellFormed(snap[k])
                     /\ NameOk(snap[k], gen.name)
                     /\ gen.evalAt[k] < snap[k].vals.Expiration}
        IN  /\ gen.requests = 1
            /\ Len(gen.evalAt) = gen.idx
            /\ \A k \in 1..gen.idx :
                   /\ gen.t0 <= gen.evalAt[k]
                   /\ gen.evalAt[k] <= now
                   /\ \A i \in 1..k : gen.evalAt[i] <= gen.evalAt[k]
            /\ IsSubsequence(gen.yielded, snap, K)

\* The first entry was yielded and has expired by the time the second, valid
\* at the request but expired at its own evaluation, is dropped.
C9_Witness ==
    /\ gen.valid_only
    /\ gen.pc \in {"running", "done"}
    /\ gen.idx = 2
    /\ Len(gen.yielded) = 1
    /\ gen.yielded[1].arn = gen.snapshot[1].vals.Arn
    /\ gen.yielded[1].expiration <= gen.evalAt[2]
    /\ WellFormed(gen.snapshot[2])
    /\ NameOk(gen.snapshot[2], gen.name)
    /\ gen.t0 < gen.snapshot[2].vals.Expiration
    /\ gen.snapshot[2].vals.Expiration <= gen.evalAt[2]

\* A record yielded earlier has expired when a later record is yielded.
C9_YieldedThenExpired ==
    /\ gen.valid_only
    /\ Len(gen.yielded) = 2
    /\ gen.yielded[1].expiration <= gen.evalAt[2]

Present(st, n) == \E i \in 1..Len(st) : st[i].vals.ServerCertificateName = n

\* A step in which get_by_name is called and returns or raises.
ByNameCalled == byName.pc = "idle" /\ byName'.pc = "returned"

\* C4 as claimed: get_by_name(n) issues one describe-one request; a remote
\* failure is passed through as ServiceError; with no certificate named n in
\* the store it fails with the not-found error; with one present it returns a
\* record whose name is n.
C4_AsClaimed ==
    [][ByNameCalled =>
          LET n == byName'.name
              r == byName'.result
          IN  /\ byName'.requests = <<"GetServerCertificate">>
              /\ byName'.fault => (~r.ok /\ r.error = "ServiceError")
              /\ (~byName'.fault /\ ~Present(store, n)) =>
                     (~r.ok /\ r.error = "NoSuchEntity")
              /\ (~byName'.fault /\ Present(store, n)) =>
                     (r.ok /\ r.rec.name = n)]_vars

\* C4 as amended: as claimed, but with a certificate named n present the
\* call returns a record of name n only if the entry the service returns
\* supplies all eight fields; if that entry lacks one, the call fails with
\* the construction error (KeyError) and returns no record.
C4_ByName ==
    [][ByNameCalled =>
          LET n == byName'.name
              r == byName'.result
          IN  /\ byName'.requests = <<"GetServerCertificate">>
              /\ byName'.fault => (~r.ok /\ r.error = "ServiceError")
              /\ (~byName'.fault /\ ~Present(store, n)) =>
                     (~r.ok /\ r.error = "NoSuchEntity")
              /\ (~byName'.fault /\ Present(store, n)) =>
                     \/ /\ r.ok
                        /\ r.rec.name = n
                        /\ \E i \in 1..Len(store) :
                               WellFormed(store[i]) /\ Describes(r.rec, store[i])
                     \/ /\ ~r.ok
                        /\ r.error = "KeyError"
                        /\ \E i \in 1..Len(store) :
                               /\ store[i].vals.ServerCertificateName = n
                               /\ ~WellFormed(store[i])]_vars

\* get_by_name returned the record of the second of two stored certificates.
C4_Witness ==
    /\ byName.pc = "returned"
    /\ byName.result.ok
    /\ byName.result.rec.name = byName.name
    /\ Len(store) = 2
    /\ store[1].vals.ServerCertificateName # byName.name
    /\ byName.result.rec.arn = store[2].vals.Arn

\* C10: every call makes its own request and answers from what the store
\* holds at that request: the listing's snapshot is the store as it is when
\* the request is made, whatever an earlier call returned, and stays as it is
\* while the call runs; a fully consumed listing holds exactly the snapshot's
\* entries that pass its filters (so nothing deleted before the request and
\* everything uploaded before it that passes); get_by_name answers from the
\* store as it is when it is called.
C10_FreshEachCall ==
    [][/\ (gen.pc = "created" /\ gen'.pc = "running") =>
              /\ gen'.snapshot = store
              /\ gen'.requests = 1
              /\ gen'.idx = 0
              /\ gen'.yielded = <<>>
       /\ (gen.pc = "running" /\ gen'.pc # "idle") =>
              /\ gen'.snapshot = gen.snapshot
              /\ gen'.requests = gen.requests
       /\ (gen.pc = "running" /\ gen'.pc = "done") =>
              YieldedArns(gen') =
                  {gen'.snapshot[k].vals.Arn :
                      k \in {i \in 1..Len(gen'.snapshot) :
                                /\ NameOk(gen'.snapshot[i], gen'.name)
                                /\ gen'.valid_only =>
                                       gen'.evalAt[i] < gen'.snapshot[i].vals.Expiration}}
       /\ ByNameCalled =>
              LET n == byName'.name
                  r == byName'.result
              IN  /\ byName'.requests = <<"GetServerCertificate">>
                  /\ r.ok => \E i \in 1..Len(store) :
                                 /\ store[i].vals.ServerCertificateName = n
                                 /\ Describes(r.rec, store[i])
                  /\ (~byName'.fault /\ ~Present(store, n)) =>
                         (~r.ok /\ r.error = "NoSuchEntity")
                  /\ (~r.ok /\ r.error = "NoSuchEntity") => ~Present(store, n)
      ]_vars

\* An unfiltered listing, fully consumed after an earlier one: what the
\* earlier one returned has been deleted and is not in it, and what was
\* uploaded since is.
C10_Witness ==
    /\ gen.pc = "done"
    /\ ~gen.valid_only
    /\ gen.name = None
    /\ lastResult # {}
    /\ lastResult \cap YieldedArns(gen) = {}
    /\ Len(gen.yielded) = 1
    /\ gen.yielded[1].arn = ArnOf(nextId)

---------------------------------------------------------------------------
(* Records in the caller's hands: construction, comparison, validity *)

AllFields == RequiredFields

BaseVals ==
    [ServerCertificateName |-> "cert-a",
     Arn                   |-> ArnOf(1),
     Expiration            |-> 2,
     Path                  |-> "/",
     ServerCertificateId   |-> "ID1",
     UploadDate            |-> 1,
     CertificateBody       |-> "pemA",
     CertificateChain      |-> ""]

AltVals ==
    [ServerCertificateName |-> "cert-b",
     Arn                   |-> ArnOf(2),
     Expiration            |-> 1,
     Path                  |-> "/live/",
     ServerCertificateId   |-> "ID2",
     UploadDate            |-> 2,
     CertificateBody       |-> "pemB",
     CertificateChain      |-> "pemCA"]

\* The field values the inputs are drawn from: the base values; the base with
\* only the ARN or only the upload date changed; the base with every field
\* changed but the ARN, but the upload date, or with none kept; and a third
\* certificate uploaded later.
Catalogue ==
    {[f \in AllFields |-> IF f \in S THEN AltVals[f] ELSE BaseVals[f]] :
        S \in {{}, {"Arn"}, {"UploadDate"},
                AllFields \ {"Arn"}, AllFields \ {"UploadDate"}, AllFields}}
    \cup {[BaseVals EXCEPT !.Arn = ArnOf(3), !.UploadDate = 3]}

Vias == {"__init__", "from_boto_dict", "from_boto_server_certificate"}

\* The three ways to a record.
Normalize(via, e) ==
    CASE via = "__init__" -> construct(e)
      [] via = "from_boto_dict" -> from_boto_dict(e)
      [] via = "from_boto_server_certificate" -> from_boto_server_certificate(e)

\* A record is constructed, one of the three ways, from the raw entry at hand.
Construct ==
    /\ out.op = "input"
    /\ \E via \in Vias :
           out' = [op |-> via, input |-> out.input,
                   result |-> Normalize(via, out.input)]
    /\ UNCHANGED <<store, nextId, now, gen, byName, lastResult, recs, arn>>

\* The caller constructs a record from a complete entry and keeps it.
Hold ==
    /\ Len(recs) < MaxRecs
    /\ \E via \in Vias, v \in Catalogue :
           recs' = Append(recs, Normalize(via, [vals |-> v, missing |-> {}]).rec)
    /\ out' = OutIdle
    /\ UNCHANGED <<store, nextId, now, gen, byName, lastResult, arn>>

Drop ==
    /\ recs # <<>>
    /\ recs' = <<>>
    /\ out' = OutIdle
    /\ UNCHANGED <<store, nextId, now, gen, byName, lastResult, arn>>

\* certificate.is_valid(when), when given or left out
IsValid ==
    /\ out = OutIdle
    /\ \E i \in 1..Len(recs), when \in {None} \cup {Some(t) : t \in Whens} :
           out' = [op |-> "is_valid", self |-> recs[i], when |-> when,
                   clock |-> now, value |-> is_valid(recs[i], when, now)]
    /\ UNCHANGED <<store, nextId, now, gen, byName, lastResult, recs, arn>>

\* a < b
Lt ==
    /\ out = OutIdle
    /\ \E i, j \in 1..Len(recs) :
           out' = [op |-> "lt", self |-> recs[i], other |-> recs[j],
                   value |-> lt(recs[i], recs[j])]
    /\ UNCHANGED <<store, nextId, now, gen, byName, lastResult, recs, arn>>

\* a == b
Eq ==
    /\ out = OutIdle
    /\ \E i, j \in 1..Len(recs) :
           out' = [op |-> "eq", self |-> recs[i], other |-> recs[j],
                   value |-> eq(recs[i], recs[j])]
    /\ UNCHANGED <<store, nextId, now, gen, byName, lastResult, recs, arn>>

\* sorted(records)
Sort ==
    /\ out = OutIdle
    /\ recs # <<>>
    /\ out' = [op |-> "sorted", input |-> recs, value |-> sorted(recs)]
    /\ UNCHANGED <<store, nextId, now, gen, byName, lastResult, recs, arn>>

\* The caller has taken the result of the last operation.
Consume ==
    /\ out # OutIdle
    /\ out' = OutIdle
    /\ UNCHANGED <<store, nextId, now, gen, byName, lastResult, recs, arn>>

NextRec ==
    \/ Hold
    \/ Drop
    \/ Tick
    \/ IsValid
    \/ Lt
    \/ Eq
    \/ Sort
    \/ Consume

SpecRec == Init /\ [][NextRec]_vars

\* Every raw entry: values of the catalogue, any of the keys left out.
RawInputs ==
    {[vals |-> v, missing |-> m] :
        v \in Catalogue, m \in SUBSET (RequiredFields \cup {Container})}

InitCtor ==
    /\ store = <<>>
    /\ nextId = 0
    /\ now = 0
    /\ gen = GenIdle
    /\ byName = ByNameIdle
    /\ lastResult = {}
    /\ recs = <<>>
    /\ out \in {[op |-> "input", input |-> e] : e \in RawInputs}
    /\ arn = ArnIdle

NextCtor == Construct

SpecCtor == InitCtor /\ [][NextCtor]_vars

---------------------------------------------------------------------------
(* ARN arguments *)

\* The caller puts an argument together: None, the empty string, or a string
\* grown by one fragment.
ArnReset ==
    /\ \E v \in {None, Some(<<>>)} : arn' = [frags |-> 0, value |-> v]
    /\ out' = OutIdle
    /\ UNCHANGED <<store, nextId, now, gen, byName, lastResult, recs>>

ArnAppend ==
    /\ arn.frags < MaxFrags
    /\ \E f \in Fragments :
           arn' = [frags |-> arn.frags + 1,
                   value |-> Some((IF arn.value = None THEN <<>>
                                   ELSE Unwrap(arn.value)) \o f)]
    /\ out' = OutIdle
    /\ UNCHANGED <<store, nextId, now, gen, byName, lastResult, recs>>

\* IAMServerCertificate.arn_is_server_certificate(arn): no client is made and
\* no request issued.
Classify ==
    /\ out' = [op |-> "arn_is_server_certificate", arg |-> arn.value,
               value |-> arn_is_server_certificate(arn.value),
               requests |-> <<>>]
    /\ UNCHANGED <<store, nextId, now, gen, byName, lastResult, recs, arn>>

NextArn ==
    \/ ArnReset
    \/ ArnAppend
    \/ Classify

SpecArn == Init /\ [][NextArn]_vars

---------------------------------------------------------------------------
(* Properties of records and of the ARN test *)

\* C2: is_valid(when) is true iff when < expiration, strictly: false at the
\* expiration itself and one tick after it, true one tick before it; with
\* `when` left out the clock's reading takes its place; the upload date (or
\* any not-before bound) plays no part.
C2_StrictExpiry ==
    out.op = "is_valid" =>
        LET at == IF out.when = None THEN out.clock ELSE Unwrap(out.when)
            E == out.self.expiration
        IN  /\ out.value <=> at < E
            /\ at = E => ~out.value
            /\ at = E - 1 => out.value
            /\ at = E + 1 => ~out.value
            /\ (at < out.self.upload_date /\ at < E) => out.value

\* is_valid() with `when` left out, at the very expiration instant: false.
C2_Witness ==
    /\ out.op = "is_valid"
    /\ out.when = None
    /\ out.clock = out.self.expiration
    /\ ~out.value

\* C5: construction through the constructor or either normalizer succeeds
\* iff none of the eight fields is absent; then the record carries the eight
\* values; otherwise it is a construction error and there is no record.
C5_AllFieldsRequired ==
    out.op \in Vias =>
        /\ out.result.ok <=> \A f \in RequiredFields : ~Absent(out.input, f)
        /\ out.result.ok => Describes(out.result.rec, out.input)
        /\ ~out.result.ok =>
               /\ out.result.error \in {"KeyError", "AttributeError", "TypeError"}
               /\ "rec" \notin DOMAIN out.result

\* from_boto_dict on an entry that lacks nothing but the chain: an error.
C5_Witness ==
    /\ out.op = "from_boto_dict"
    /\ out.input.missing = {"CertificateChain"}
    /\ ~out.result.ok

\* C6: a == b iff the ARNs are equal, whatever the other fields; the relation
\* is reflexive, symmetric and transitive.
C6_EqualByArn ==
    /\ out.op = "eq" => (out.value <=> out.self.arn = out.other.arn)
    /\ \A i, j, k \in 1..Len(recs) :
           /\ eq(recs[i], recs[i])
           /\ eq(recs[i], recs[j]) => eq(recs[j], recs[i])
           /\ (eq(recs[i], recs[j]) /\ eq(recs[j], recs[k])) => eq(recs[i], recs[k])

\* Two records of one ARN that differ in every other field compare equal.
C6_Witness ==
    /\ out.op = "eq"
    /\ out.value
    /\ out.self.upload_date # out.other.upload_date
    /\ out.self.certificate_body # out.other.certificate_body
    /\ out.self.name # out.other.name
    /\ out.self.expiration # out.other.expiration

\* C7: a < b iff a's upload date is before b's, whatever the other fields;
\* records of one upload date are ordered neither way; sorting records of
\* distinct upload dates lists them from the earliest upload to the latest.
C7_OrderByUploadDate ==
    /\ out.op = "lt" =>
           (out.value <=> out.self.upload_date < out.other.upload_date)
    /\ \A i, j \in 1..Len(recs) :
           recs[i].upload_date = recs[j].upload_date =>
               ~lt(recs[i], recs[j]) /\ ~lt(recs[j], recs[i])
    /\ (/\ out.op = "sorted"
        /\ \A i, j \in 1..Len(out.input) :
               i # j => out.input[i].upload_date # out.input[j].upload_date) =>
           /\ Len(out.value) = Len(out.input)
           /\ {out.value[i] : i \in 1..Len(out.value)}
                  = {out.input[i] : i \in 1..Len(out.input)}
           /\ \A i, j \in 1..Len(out.value) :
                  i < j => out.value[i].upload_date < out.value[j].upload_date

\* Three records of distinct upload dates, held latest first, sorted.
C7_Witness ==
    /\ out.op = "sorted"
    /\ Len(out.input) = 3
    /\ out.input[1].upload_date > out.input[2].upload_date
    /\ out.input[2].upload_date > out.input[3].upload_date
    /\ out.input[1].expiration > out.input[3].expiration
    /\ out.value = <<out.input[3], out.input[2], out.input[1]>>

UserArn == <<"a", "r", "n", ":", "a", "w", "s", ":", "i", "a", "m", ":", ":", "1", "2", "3", ":", "u", "s", "e", "r", "/", "f", "o", "o">>

ServerCertificateArn == <<"a", "r", "n", ":", "a", "w", "s", ":", "i", "a", "m", ":", ":", "1", "2", "3", ":", "s", "e", "r", "v", "e", "r", "-", "c", "e", "r", "t", "i", "f", "i", "c", "a", "t", "e", "/", "f", "o", "o">>

\* C8: arn_is_server_certificate is false for None; for a string it is true
\* iff the string begins with "arn:aws:iam:" and holds "server-certificate"
\* somewhere; so the ARN of an IAM user is classified false and that of a
\* server certificate true; no request is made.
C8_ArnTest ==
    out.op = "arn_is_server_certificate" =>
        /\ out.requests = <<>>
        /\ out.arg = None => ~out.value
        /\ out.arg # None =>
               LET s == Unwrap(out.arg)
                   hasPrefix ==
                       /\ Len(s) >= Len(IamPrefix)
                       /\ \A i \in 1..Len(IamPrefix) : s[i] = IamPrefix[i]
                   hasMark ==
                       \E i \in 1..Len(s) :
                           /\ i + Len(ServerCertificateMark) - 1 <= Len(s)
                           /\ \A j \in 1..Len(ServerCertificateMark) :
                                  s[i + j - 1] = ServerCertificateMark[j]
               IN  /\ out.value <=> (hasPrefix /\ hasMark)
                   /\ s = UserArn => ~out.value
                   /\ s = ServerCertificateArn => out.value

\* The ARN of an IAM user: the prefix is there, the mark is not.
C8_Witness ==
    /\ out.op = "arn_is_server_certificate"
    /\ out.arg = Some(UserArn)
    /\ ~out.value

\* The ARN of a server certificate is classified true.
C8_ServerCertificateSeen ==
    /\ out.op = "arn_is_server_certificate"
    /\ out.arg = Some(ServerCertificateArn)
    /\ out.value

====
